---- MODULE Spec2Model ----
(***************************************************************************)
(* Request-handling contract of the PandAI quiz backend (src/main.py):     *)
(* module start-up, buscar_contexto, and the three routes home,            *)
(* search_lessons_route and generate_quiz_route.  Every outbound call      *)
(* (embed_content, the match_documents RPC, generate_content) is a point   *)
(* where the request waits, so requests interleave at those points.       *)
(* Text is modelled as a sequence of text fragments; Python values are     *)
(* records tagged with their Python type.                                  *)
(***************************************************************************)
EXTENDS Naturals, Sequences, FiniteSets

VARIABLES
    started,         \* the module body (lines 11-38) has run
    create_raised,   \* create_client raised at start-up (line 25 was entered)
    supabase,        \* the global document-store handle (line 24 / 27)
    genai_api_key,   \* the key given to genai.configure (line 22)
    pc,              \* per request: where the handler is
    route,           \* per request: the route it was sent to
    query,           \* per request: QuizRequest.query
    contexto,        \* per request: what buscar_contexto returned
    calls,           \* per request: the outbound calls made, in order
    replies,         \* per request: what each outbound call answered
    prompt,          \* per request: the prompt given to generate_content
    response         \* per request: the HTTP response

vars == <<started, create_raised, supabase, genai_api_key, pc, route, query,
          contexto, calls, replies, prompt, response>>

globals == <<started, create_raised, supabase, genai_api_key>>

-----------------------------------------------------------------------------
(* Bounds and input sets *)

MaxPassages == 2

Requests == {"r1", "r2"}

Routes == {"/", "/search-lessons", "/generate-quiz-preview"}

Queries == {"loops", "unknown-topic-xyz"}

\* Exceptions the client libraries raise: subclasses of Exception.
ExcTypes == {"ConnectionError", "ValueError"}

\* Texts the generative model may answer with: a quiz object, and a text that
\* is no JSON and has blanks around it.
ModelTexts == {"{quiz_title: T, description: D, questions: [Q1, Q2, Q3]}", " not JSON at all "}

EnvValues == {"unset", "set"}

-----------------------------------------------------------------------------
(* Python values *)

PyNone == [type |-> "NoneType"]

PyStr(s) == [type |-> "str", v |-> s]

PyList(s) == [type |-> "list", v |-> s]

PyExc(e) == [type |-> "exception", v |-> e]

\* Records the document store may return: with a text content, with a null
\* content, or without a content column at all.
Passages ==
    { [content |-> PyStr("A")], [content |-> PyStr("B")],
      [content |-> PyNone], [similarity |-> PyStr("0.9")] }

RECURSIVE SeqsUpTo(_, _)
SeqsUpTo(S, n) ==
    IF n = 0 THEN {<<>>}
    ELSE LET shorter == SeqsUpTo(S, n - 1)
         IN  shorter \cup { Append(s, x) : s \in { t \in shorter : Len(t) = n - 1 }, x \in S }

\* response.data of the match_documents RPC: a list of records, or no data.
StoreData == { PyList(s) : s \in SeqsUpTo(Passages, MaxPassages) } \cup {PyNone}

\* Python truthiness, as used by "if not contexto" and "if not supabase".
Truthy(x) ==
    CASE x.type = "NoneType" -> FALSE
      [] x.type = "list"     -> Len(x.v) > 0
      [] x.type = "str"      -> x.v # ""
      [] OTHER               -> TRUE

\* str() as an f-string applies it to an interpolated value.
Format(x) ==
    CASE x.type = "NoneType" -> "None"
      [] x.type = "str"      -> x.v
      [] OTHER               -> "<object>"

-----------------------------------------------------------------------------
(* Responses *)

NoContentMessage == "Não encontramos conteúdo suficiente nas aulas para este tema."

GenErrorDetail == "Erro interno ao gerar quiz."

\* The two trailing emoji of the source string are written as their names.
HomeMessage == "API do PandAI está online e rodando! :panda::rocket:"

NoResponse == [status |-> 0, body |-> [none |-> TRUE]]

HomeResponse == [status |-> 200, body |-> [message |-> HomeMessage]]

NoContentResponse ==
    [status |-> 200, body |-> [success |-> FALSE, message |-> NoContentMessage]]

\* Variant: the search route answers 404 when nothing matched.
SearchResponseNotFound(ctx) ==
    IF Truthy(ctx) THEN [status |-> 200, body |-> [results |-> ctx]]
    ELSE [status |-> 404, body |-> [detail |-> "Not Found"]]

\* Variant: the model text is cleaned of the blanks around it before it is returned.
SuccessResponseStripped(text) ==
    [status |-> 200,
     body |-> [success |-> TRUE,
               quiz_content |-> IF text = " not JSON at all " THEN "not JSON at all" ELSE text]]

\* Variant: the detail carries str(e).
GenErrorResponseLeaks(e) == [status |-> 500, body |-> [detail |-> e]]

\* return {"results": contexto} (line 81)
SearchResponse(ctx) == [status |-> 200, body |-> [results |-> ctx]]

\* return {"success": True, "quiz_content": response.text} (lines 142-145)
SuccessResponse(text) ==
    [status |-> 200, body |-> [success |-> TRUE, quiz_content |-> text]]

\* raise HTTPException(status_code=500, detail=...) in the except branch.
GenErrorResponse(e) == [status |-> 500, body |-> [detail |-> GenErrorDetail]]

\* An exception that leaves a route: the framework answers 500.
UnhandledResponse(e) == [status |-> 500, body |-> [unhandled |-> e]]

-----------------------------------------------------------------------------
(* Prompt construction *)

Delimiter == "--- TRECHO DE AULA ---\n"

Separator == "\n\n"

PromptHead == "Você é um sistema gerador de avaliações técnicas. [...] CONTEXTO:\n"

PromptTail == "\nESTRUTURA DE RESPOSTA OBRIGATÓRIA (JSON): [...] REGRAS: [...]"

\* f"--- TRECHO DE AULA ---\n{item['content']}"
Trecho(item) == <<Delimiter, Format(item.content)>>

\* Variant: only the first part is kept.
JoinKeepsFirst(sep, parts) == IF Len(parts) = 0 THEN <<>> ELSE parts[1]

\* sep.join(parts), over fragment sequences.
RECURSIVE Join(_, _)
Join(sep, parts) ==
    IF Len(parts) = 0 THEN <<>>
    ELSE IF Len(parts) = 1 THEN parts[1]
    ELSE parts[1] \o <<sep>> \o Join(sep, Tail(parts))

TextoBase(items) == Join(Separator, [i \in 1..Len(items) |-> Trecho(items[i])])

BuildPrompt(items) == <<PromptHead>> \o TextoBase(items) \o <<PromptTail>>

\* item['content'] raises KeyError for a record without that key.
HasContent(item) == "content" \in DOMAIN item

-----------------------------------------------------------------------------
(* Start-up *)

Init ==
    /\ started = FALSE
    /\ create_raised = FALSE
    /\ supabase = PyNone
    /\ genai_api_key = "unset"
    /\ pc = [r \in Requests |-> "idle"]
    /\ route = [r \in Requests |-> "/"]
    /\ query = [r \in Requests |-> "loops"]
    /\ contexto = [r \in Requests |-> PyNone]
    /\ calls = [r \in Requests |-> <<>>]
    /\ replies = [r \in Requests |-> <<>>]
    /\ prompt = [r \in Requests |-> <<>>]
    /\ response = [r \in Requests |-> NoResponse]

\* create_client refuses a missing URL or key; otherwise it may still raise.
CreateClientOutcomes(url, key) ==
    IF url = "unset" \/ key = "unset" THEN {"raise"} ELSE {"ok", "raise"}

\* try: supabase = create_client(...)  except Exception: supabase = None
HandleAfterCreate(outcome) == IF outcome = "ok" THEN PyStr("client") ELSE PyNone

Startup ==
    /\ ~started
    /\ \E gemini \in EnvValues, url \in EnvValues, key \in EnvValues :
         \E outcome \in CreateClientOutcomes(url, key) :
            /\ genai_api_key' = gemini
            /\ supabase' = HandleAfterCreate(outcome)
            /\ create_raised' = (outcome = "raise")
    /\ started' = TRUE
    /\ UNCHANGED <<pc, route, query, contexto, calls, replies, prompt, response>>

-----------------------------------------------------------------------------
(* Outcomes of the outbound calls *)

\* Classes that "except Exception" (lines 68 and 146) catches.
ExceptionSubclasses == ExcTypes \cup {"KeyError", "AttributeError"}

Raised(e) == [kind |-> "raise", val |-> PyExc(e)]

Returned(v) == [kind |-> "ok", val |-> v]

PyDict(keys) == [type |-> "dict", v |-> keys]

\* genai.embed_content: a dict with the vector, a malformed dict, or an exception.
EmbedOutcomes ==
    {Returned(PyDict({"embedding"})), Returned(PyDict({}))}
        \cup { Raised(e) : e \in ExcTypes }

\* supabase.rpc("match_documents", ...).execute(): data, or an exception.
SearchOutcomes == { Returned(d) : d \in StoreData } \cup { Raised(e) : e \in ExcTypes }

\* model.generate_content(prompt) and response.text: a text, or an exception.
GenerateOutcomes ==
    { Returned(PyStr(t)) : t \in ModelTexts } \cup { Raised(e) : e \in ExcTypes }

-----------------------------------------------------------------------------
(* buscar_contexto and the routes *)

\* Variant: "if supabase is False", which None does not satisfy.
HandleIsFalse(s) == s = [type |-> "bool", v |-> FALSE]

\* "if not supabase" (line 46)
HandleAbsent(s) == ~Truthy(s)

\* Variant: "if contexto is None", which [] does not satisfy.
NoContextOnlyNone(ctx) == ctx.type = "NoneType"

\* "if not contexto" (line 90)
NoContext(ctx) == ~Truthy(ctx)

\* Variant: "except ConnectionError as e".
CaughtOnlyConnectionError(e) == e = "ConnectionError"

\* "except Exception as e" of buscar_contexto (line 68)
CaughtInBuscar(e) == e \in ExceptionSubclasses

\* "except Exception as e" of generate_quiz_route (line 146)
CaughtInGenerate(e) == e \in ExceptionSubclasses

Set(f, r, v) == [f EXCEPT ![r] = v]

\* The request ends with response resp.
Respond(r, resp) ==
    /\ response' = Set(response, r, resp)
    /\ pc' = Set(pc, r, "done")

\* What route rt does with the value ctx that buscar_contexto returned, the
\* calls made so far being cs: lines 81 and 88-137.
RouteAfterContext(r, rt, ctx, cs) ==
    /\ contexto' = Set(contexto, r, ctx)
    /\ IF rt = "/search-lessons" THEN
          /\ Respond(r, SearchResponse(ctx))
          /\ calls' = Set(calls, r, cs)
          /\ UNCHANGED prompt
       ELSE IF NoContext(ctx) THEN
          /\ Respond(r, NoContentResponse)
          /\ calls' = Set(calls, r, cs)
          /\ UNCHANGED prompt
       ELSE IF \E i \in 1..Len(ctx.v) : ~HasContent(ctx.v[i]) THEN
          /\ Respond(r, UnhandledResponse("KeyError"))
          /\ calls' = Set(calls, r, cs)
          /\ UNCHANGED prompt
       ELSE
          /\ prompt' = Set(prompt, r, BuildPrompt(ctx.v))
          /\ calls' = Set(calls, r, Append(cs, "generate_content"))
          /\ pc' = Set(pc, r, "generating")
          /\ UNCHANGED response

\* An exception e that buscar_contexto does not catch leaves the route.
RouteAfterRaise(r, e, cs) ==
    /\ Respond(r, UnhandledResponse(e))
    /\ calls' = Set(calls, r, cs)
    /\ UNCHANGED <<contexto, prompt>>

\* Variant: a failed embedding call is tried once more.
BuscarExceptRetries(r, rt, e, cs) ==
    /\ UNCHANGED globals
    /\ IF cs = <<"embed_content">> THEN
          /\ calls' = Set(calls, r, Append(cs, "embed_content"))
          /\ pc' = Set(pc, r, "embedding")
          /\ UNCHANGED <<contexto, prompt, response>>
       ELSE RouteAfterContext(r, rt, PyList(<<>>), cs)

\* Variant: the except branch also drops the global handle.
BuscarExceptDropsHandle(r, rt, e, cs) ==
    /\ supabase' = PyNone
    /\ UNCHANGED <<started, create_raised, genai_api_key>>
    /\ RouteAfterContext(r, rt, PyList(<<>>), cs)

\* Exception e was raised inside the try block of buscar_contexto (lines 49-70).
BuscarExcept(r, rt, e, cs) ==
    /\ UNCHANGED globals
    /\ IF CaughtInBuscar(e)
         THEN RouteAfterContext(r, rt, PyList(<<>>), cs)
         ELSE RouteAfterRaise(r, e, cs)

\* A request arrives: home answers at once; the other two routes enter
\* buscar_contexto, which returns [] without a handle and else calls
\* embed_content.
Receive(r) ==
    /\ started
    /\ pc[r] = "idle"
    /\ \E rt \in Routes :
         /\ route' = Set(route, r, rt)
         /\ IF rt = "/" THEN
               /\ Respond(r, HomeResponse)
               /\ UNCHANGED <<query, contexto, calls, prompt>>
            ELSE \E q \in Queries :
               /\ query' = Set(query, r, q)
               /\ IF HandleAbsent(supabase) THEN
                     RouteAfterContext(r, rt, PyList(<<>>), <<>>)
                  ELSE
                     /\ calls' = Set(calls, r, <<"embed_content">>)
                     /\ pc' = Set(pc, r, "embedding")
                     /\ UNCHANGED <<contexto, prompt, response>>
    /\ UNCHANGED <<globals, replies>>

\* embed_content answers (lines 50-56); on success the RPC is called.
EmbedReturn(r) ==
    /\ pc[r] = "embedding"
    /\ \E o \in EmbedOutcomes :
         /\ replies' = Set(replies, r, Append(replies[r], o))
         /\ IF o.kind = "raise" THEN
               BuscarExcept(r, route[r], o.val.v, calls[r])
            ELSE IF "embedding" \notin o.val.v THEN
               BuscarExcept(r, route[r], "KeyError", calls[r])
            ELSE IF supabase = PyNone THEN
               BuscarExcept(r, route[r], "AttributeError", calls[r])
            ELSE
               /\ calls' = Set(calls, r, Append(calls[r], "match_documents"))
               /\ pc' = Set(pc, r, "searching")
               /\ UNCHANGED <<globals, contexto, prompt, response>>
    /\ UNCHANGED <<route, query>>

\* The match_documents RPC answers (lines 58-67) and the route goes on.
SearchReturn(r) ==
    /\ pc[r] = "searching"
    /\ \E o \in SearchOutcomes :
         /\ replies' = Set(replies, r, Append(replies[r], o))
         /\ IF o.kind = "raise" THEN
               BuscarExcept(r, route[r], o.val.v, calls[r])
            ELSE
               /\ RouteAfterContext(r, route[r], o.val, calls[r])
               /\ UNCHANGED globals
    /\ UNCHANGED <<route, query>>

\* generate_content answers (lines 139-148).
GenerateReturn(r) ==
    /\ pc[r] = "generating"
    /\ \E o \in GenerateOutcomes :
         /\ replies' = Set(replies, r, Append(replies[r], o))
         /\ IF o.kind = "ok" THEN Respond(r, SuccessResponse(o.val.v))
            ELSE IF CaughtInGenerate(o.val.v) THEN Respond(r, GenErrorResponse(o.val.v))
            ELSE Respond(r, UnhandledResponse(o.val.v))
    /\ UNCHANGED <<globals, route, query, contexto, calls, prompt>>

Next ==
    \/ Startup
    \/ \E r \in Requests : Receive(r)
    \/ \E r \in Requests : EmbedReturn(r)
    \/ \E r \in Requests : SearchReturn(r)
    \/ \E r \in Requests : GenerateReturn(r)

Spec == Init /\ [][Next]_vars

-----------------------------------------------------------------------------
(* Properties *)

Quiz(r) == route[r] = "/generate-quiz-preview"

Search(r) == route[r] = "/search-lessons"

Done(r) == pc[r] = "done"

\* buscar_contexto has returned to the route of request r.
Retrieved(r) == route[r] # "/" /\ pc[r] \in {"generating", "done"}

Made(r, call) == \E i \in 1..Len(calls[r]) : calls[r][i] = call

\* The i-th outbound call of request r was `call` and it raised.
CallRaised(r, i, call) ==
    /\ i <= Len(calls[r]) /\ i <= Len(replies[r])
    /\ calls[r][i] = call
    /\ replies[r][i].kind = "raise"

\* The i-th outbound call of request r was `call` and it returned.
CallReturned(r, i, call) ==
    /\ i <= Len(calls[r]) /\ i <= Len(replies[r])
    /\ calls[r][i] = call
    /\ replies[r][i].kind = "ok"

ZeroPassages(ctx) == ctx = [type |-> "NoneType"] \/ ctx = [type |-> "list", v |-> <<>>]

NotEnoughContent ==
    [status |-> 200,
     body |-> [success |-> FALSE,
               message |-> "Não encontramos conteúdo suficiente nas aulas para este tema."]]

\* C1: whenever buscar_contexto yields zero passages (an empty list or no
\* data) for a /generate-quiz-preview request, the request ends with exactly
\* {success: false, message: "Não encontramos ..."} and generate_content is
\* never called for it.
C1_NoContextNoGeneration ==
    \A r \in Requests :
        (Quiz(r) /\ Retrieved(r) /\ ZeroPassages(contexto[r])) =>
            /\ Done(r)
            /\ response[r] = NotEnoughContent
            /\ ~Made(r, "generate_content")
            /\ prompt[r] = <<>>

\* One request for which the store returned [] and one for which it returned
\* no data, both answered.
C1_Witness ==
    /\ Quiz("r1") /\ Done("r1") /\ query["r1"] = "unknown-topic-xyz"
    /\ CallReturned("r1", 2, "match_documents")
    /\ replies["r1"][2].val = [type |-> "list", v |-> <<>>]
    /\ Quiz("r2") /\ Done("r2")
    /\ CallReturned("r2", 2, "match_documents")
    /\ replies["r2"][2].val = [type |-> "NoneType"]

\* C2: if the embedding call or the match_documents call raises, the value
\* buscar_contexto hands to its caller is the empty list, and the request
\* does not end with the exception leaving the route.
C2_RetrievalErrorsGiveEmptyList ==
    \A r \in Requests :
        (\E i \in 1..2 : CallRaised(r, i, "embed_content")
                            \/ CallRaised(r, i, "match_documents")) =>
            /\ Retrieved(r)
            /\ contexto[r] = [type |-> "list", v |-> <<>>]
            /\ "unhandled" \notin DOMAIN response[r].body

\* The embedding call raised for one request and the store raised for the other.
C2_Witness ==
    /\ CallRaised("r1", 1, "embed_content") /\ Done("r1")
    /\ replies["r1"][1].val.v = "ValueError"
    /\ CallRaised("r2", 2, "match_documents") /\ Done("r2")
    /\ replies["r2"][2].val.v = "ConnectionError"

\* C3: a /generate-quiz-preview request whose generation call raised ends
\* with HTTP 500 and the detail "Erro interno ao gerar quiz.", whatever the
\* exception was.
C3_GenerationErrorIsFixed500 ==
    \A r \in Requests :
        (Quiz(r) /\ Done(r) /\ CallRaised(r, 3, "generate_content")) =>
            response[r] = [status |-> 500,
                           body |-> [detail |-> "Erro interno ao gerar quiz."]]

\* Two requests whose generation calls raised exceptions of different types.
C3_Witness ==
    /\ Quiz("r1") /\ Done("r1") /\ CallRaised("r1", 3, "generate_content")
    /\ Quiz("r2") /\ Done("r2") /\ CallRaised("r2", 3, "generate_content")
    /\ replies["r1"][3].val # replies["r2"][3].val
    /\ Truthy(contexto["r1"]) /\ Truthy(contexto["r2"])

\* C4: a /generate-quiz-preview request ends in an error response only when
\* its generation call raised; retrieval, prompt construction and model
\* construction never end the request in an error.
C4_ErrorOnlyWhenGenerationRaises ==
    \A r \in Requests :
        (Quiz(r) /\ Done(r) /\ response[r].status >= 400) =>
            \E i \in 1..Len(calls[r]) : CallRaised(r, i, "generate_content")

\* C5: when the generation call returns, the response is success: true with
\* quiz_content exactly the text the model returned.
C5_ModelTextVerbatim ==
    \A r \in Requests :
        (Quiz(r) /\ Done(r) /\ CallReturned(r, 3, "generate_content")) =>
            response[r] = [status |-> 200,
                           body |-> [success |-> TRUE,
                                     quiz_content |-> replies[r][3].val.v]]

\* A request answered with a model text that is not JSON.
C5_Witness ==
    \E r \in Requests :
        /\ Quiz(r) /\ Done(r) /\ CallReturned(r, 3, "generate_content")
        /\ replies[r][3].val.v = " not JSON at all "
        /\ response[r].body.quiz_content = " not JSON at all "

\* The store answered request r's match_documents call with data.
RetrievalSucceeded(r) == CallReturned(r, 2, "match_documents")

\* C6: a /search-lessons request always ends with the normal response
\* {results: L}: L is the data the store returned when retrieval succeeded,
\* and the empty list when the handle is absent or a retrieval call failed.
C6_SearchNeverFails ==
    \A r \in Requests :
        (Search(r) /\ pc[r] # "idle") =>
            /\ pc[r] \in {"embedding", "searching", "done"}
            /\ Done(r) =>
                 /\ response[r].status = 200
                 /\ DOMAIN response[r].body = {"results"}
                 /\ response[r].body.results =
                       IF RetrievalSucceeded(r) THEN replies[r][2].val
                       ELSE [type |-> "list", v |-> <<>>]

\* Search requests answered after a failed retrieval and with an absent handle
\* or an empty match.
C6_Witness ==
    /\ Search("r1") /\ Done("r1") /\ CallRaised("r1", 2, "match_documents")
    /\ Search("r2") /\ Done("r2") /\ ~CallRaised("r2", 1, "embed_content")
    /\ response["r2"].body.results = [type |-> "list", v |-> <<>>]

\* C7: if create_client raised at start-up the service is started with the
\* handle absent; every later buscar_contexto returns the empty list without
\* any outbound call, and every /generate-quiz-preview request gets the
\* "not enough content" payload.
C7_FailedClientDegrades ==
    create_raised =>
        /\ started
        /\ supabase = [type |-> "NoneType"]
        /\ \A r \in Requests :
              (route[r] # "/" /\ pc[r] # "idle") =>
                  /\ Done(r)
                  /\ calls[r] = <<>>
                  /\ contexto[r] = [type |-> "list", v |-> <<>>]
                  /\ Quiz(r) => response[r] = NotEnoughContent

\* After a failed create_client, a quiz request and a search request were served.
C7_Witness ==
    /\ create_raised
    /\ Quiz("r1") /\ Done("r1")
    /\ Search("r2") /\ Done("r2")

\* C8: per request the outbound calls are each made at most once, the
\* search only after the embedding call returned, and the generation call
\* only on the quiz route after the search returned a non-empty list.
C8_LinearCallOrder ==
    \A r \in Requests :
        /\ Len(replies[r]) <= Len(calls[r])
        /\ \A i, j \in 1..Len(calls[r]) : calls[r][i] = calls[r][j] => i = j
        /\ \A i \in 1..Len(calls[r]) :
              /\ calls[r][i] \in {"embed_content", "match_documents", "generate_content"}
              /\ calls[r][i] = "match_documents" =>
                    \E j \in 1..(i - 1) : CallReturned(r, j, "embed_content")
              /\ calls[r][i] = "generate_content" =>
                    /\ Quiz(r)
                    /\ \E j \in 1..(i - 1) :
                          /\ CallReturned(r, j, "match_documents")
                          /\ replies[r][j].val.type = "list"
                          /\ Len(replies[r][j].val.v) > 0

\* A request that made all three calls.
C8_Witness ==
    \E r \in Requests :
        /\ Done(r)
        /\ calls[r] = <<"embed_content", "match_documents", "generate_content">>

\* The text a passage's content takes in a prompt.
Rendered(item) ==
    IF item.content = [type |-> "NoneType"] THEN "None" ELSE item.content.v

\* The fragments of p that directly follow a delimiter, in order.
RECURSIVE AfterDelimiters(_)
AfterDelimiters(p) ==
    IF Len(p) < 2 THEN <<>>
    ELSE IF p[1] = "--- TRECHO DE AULA ---\n"
         THEN <<p[2]>> \o AfterDelimiters(Tail(Tail(p)))
         ELSE AfterDelimiters(Tail(p))

\* C9: the prompt given to generate_content holds, after one delimiter
\* each, the contents of exactly the passages the store returned, in the
\* store's order.
C9_PromptHoldsEveryPassage ==
    \A r \in Requests :
        Made(r, "generate_content") =>
            LET items == replies[r][2].val.v
            IN  /\ Len(items) > 0
                /\ AfterDelimiters(prompt[r]) =
                       [i \in 1..Len(items) |-> Rendered(items[i])]

\* A prompt built from two different passages, and one from a repeated passage.
C9_Witness ==
    /\ Made("r1", "generate_content")
    /\ replies["r1"][2].val.v = <<[content |-> PyStr("B")], [content |-> PyStr("A")]>>
    /\ Made("r2", "generate_content")
    /\ replies["r2"][2].val.v = <<[content |-> PyStr("A")], [content |-> PyStr("A")]>>

\* After start-up no step changes the handle or the generation key.
HandlesReadOnly ==
    started => (supabase' = supabase /\ genai_api_key' = genai_api_key)

\* Two answered requests with the same route, query and replies got the same
\* response.
ResponseFromOwnReplies ==
    \A r1, r2 \in Requests :
        (Done(r1) /\ Done(r2) /\ route[r1] = route[r2] /\ query[r1] = query[r2]
            /\ replies[r1] = replies[r2]) => response[r1] = response[r2]

\* C10: no request handler changes the process-wide handles, and under any
\* interleaving a request's response is determined by its own route, query
\* and the replies to its own calls.
C10_NoSharedStateBetweenRequests ==
    [][HandlesReadOnly]_vars /\ []ResponseFromOwnReplies

\* A request whose retrieval failed is answered while another is still served
\* with the handle in place.
C10_Witness ==
    /\ Done("r1") /\ CallRaised("r1", 1, "embed_content")
    /\ pc["r2"] = "generating"
    /\ supabase = PyStr("client")

====
